---- MODULE Spec2Model ----
(***************************************************************************)
(* Model of the password-reset deep-link screen (app/(auth)/reset-password *)
(* .tsx, kept here as src/unnamed/part_001) of mosayic-io/mobile-app.      *)
(*                                                                         *)
(* JavaScript strings are TLA+ strings, read with Len, SubSeq and \o.  An  *)
(* optional string (string | undefined) is a sequence of at most one       *)
(* string: << >> is undefined, <<"abc">> is the string "abc", <<"">> is    *)
(* the empty string.                                                       *)
(*                                                                         *)
(* Every handler of the screen (an effect, an event callback, the          *)
(* continuation of an await) runs to completion on the JS thread and its   *)
(* state updates are applied together, so each is one action.              *)
(***************************************************************************)
EXTENDS Integers, Sequences, FiniteSets, TLC

(***************************************************************************)
(* Bounds of the model.                                                    *)
(***************************************************************************)
MaxExchanges == 2

(***************************************************************************)
(* Strings.                                                                *)
(***************************************************************************)
Undefined == << >>

Str(s) == <<s>>

\* JS truthiness of a string | undefined: defined and not empty.
Truthy(v) == v # Undefined /\ v[1] # ""

Min(a, b) == IF a < b THEN a ELSE b

Max(a, b) == IF a < b THEN b ELSE a

CharAt(s, i) == SubSeq(s, i + 1, i + 1)

\* String.prototype.indexOf: 0-based index of the first occurrence, or -1.
indexOf(s, sub) ==
  LET n == Len(sub)
      hits == {i \in 0..(Len(s) - n) : SubSeq(s, i + 1, i + n) = sub}
  IN  IF hits = {} THEN -1 ELSE CHOOSE i \in hits : \A j \in hits : i <= j

\* String.prototype.includes.
includes(s, sub) == indexOf(s, sub) # -1

\* String.prototype.substring(start, end): both clamped to 0..length and
\* swapped when start > end.
substring(s, start, end) ==
  LET a == Max(0, Min(start, Len(s)))
      b == Max(0, Min(end, Len(s)))
  IN  SubSeq(s, Min(a, b) + 1, Max(a, b))

LowerChar(c) ==
  CASE c = "A" -> "a" [] c = "B" -> "b" [] c = "C" -> "c" [] c = "D" -> "d"
    [] c = "E" -> "e" [] c = "F" -> "f" [] c = "G" -> "g" [] c = "H" -> "h"
    [] c = "I" -> "i" [] c = "J" -> "j" [] c = "K" -> "k" [] c = "L" -> "l"
    [] c = "M" -> "m" [] c = "N" -> "n" [] c = "O" -> "o" [] c = "P" -> "p"
    [] c = "Q" -> "q" [] c = "R" -> "r" [] c = "S" -> "s" [] c = "T" -> "t"
    [] c = "U" -> "u" [] c = "V" -> "v" [] c = "W" -> "w" [] c = "X" -> "x"
    [] c = "Y" -> "y" [] c = "Z" -> "z" [] OTHER -> c

RECURSIVE toLowerCase(_)
toLowerCase(s) ==
  IF s = "" THEN ""
  ELSE LowerChar(CharAt(s, 0)) \o toLowerCase(SubSeq(s, 2, Len(s)))

(***************************************************************************)
(* URLSearchParams, as parseDeepLink uses it: the constructor on a string  *)
(* and get(key).  The inputs of the model hold no "%", so percent-decoding *)
(* is the identity on them; "+" decodes to a space.                        *)
(***************************************************************************)
RECURSIVE SplitOn(_, _)
SplitOn(s, sep) ==
  LET i == indexOf(s, sep)
  IN  IF i = -1 THEN <<s>>
      ELSE <<substring(s, 0, i)>> \o SplitOn(substring(s, i + 1, Len(s)), sep)

RECURSIVE PlusToSpace(_)
PlusToSpace(s) ==
  IF s = "" THEN ""
  ELSE (IF CharAt(s, 0) = "+" THEN " " ELSE CharAt(s, 0))
         \o PlusToSpace(SubSeq(s, 2, Len(s)))

\* Mutant: the string is not split on "&".
URLSearchParams_noSplit(init) ==
  LET body == IF CharAt(init, 0) = "?" THEN substring(init, 1, Len(init)) ELSE init
      pieces == SelectSeq(<<body>>, LAMBDA p : p # "")
      Pair(p) == LET eq == indexOf(p, "=")
                 IN  IF eq = -1 THEN <<PlusToSpace(p), "">>
                     ELSE <<PlusToSpace(substring(p, 0, eq)),
                            PlusToSpace(substring(p, eq + 1, Len(p)))>>
  IN  [k \in 1..Len(pieces) |-> Pair(pieces[k])]

\* The list of <<name, value>> pairs of new URLSearchParams(init).
URLSearchParams(init) ==
  LET body == IF CharAt(init, 0) = "?" THEN substring(init, 1, Len(init)) ELSE init
      pieces == SelectSeq(SplitOn(body, "&"), LAMBDA p : p # "")
      Pair(p) == LET eq == indexOf(p, "=")
                 IN  IF eq = -1 THEN <<PlusToSpace(p), "">>
                     ELSE <<PlusToSpace(substring(p, 0, eq)),
                            PlusToSpace(substring(p, eq + 1, Len(p)))>>
  IN  [k \in 1..Len(pieces) |-> Pair(pieces[k])]

\* URLSearchParams.get: the value of the first pair named key, or null
\* (Undefined here: the caller only tests it for truthiness).
SearchGet(search, key) ==
  LET hits == {k \in 1..Len(search) : search[k][1] = key}
  IN  IF hits = {} THEN Undefined
      ELSE Str(search[CHOOSE k \in hits : \A j \in hits : k <= j][2])

(***************************************************************************)
(* DeepLinkParams and the helpers of the screen.                           *)
(***************************************************************************)
Keys == <<"code", "access_token", "refresh_token", "token", "token_hash">>

EmptyParams == [k \in {Keys[i] : i \in 1..Len(Keys)} |-> Undefined]

MIN_PASSWORD_LENGTH == 8

\* asString: an array gives its first element (undefined when it is empty).
\* A router value is [isArray |-> FALSE, v |-> optional string] or
\* [isArray |-> TRUE, v |-> sequence of strings].
asString(value) ==
  IF value.isArray
    THEN (IF Len(value.v) = 0 THEN Undefined ELSE Str(value.v[1]))
    ELSE value.v

\* Mutant: refresh_token counts as a credential.
hasCredentials_withRefresh(params) ==
  Truthy(params.code) \/ Truthy(params.access_token)
    \/ Truthy(params.token) \/ Truthy(params.token_hash)
    \/ Truthy(params.refresh_token)

hasCredentials(params) ==
  Truthy(params.code) \/ Truthy(params.access_token)
    \/ Truthy(params.token) \/ Truthy(params.token_hash)

\* Mutant: a name found with an empty value erases what was there.
ScanPart_emptyErases(params, part) ==
  IF part = "" THEN params
  ELSE LET search == URLSearchParams(part)
       IN  [k \in DOMAIN params |->
              IF SearchGet(search, k) # Undefined
                THEN (IF Truthy(SearchGet(search, k)) THEN SearchGet(search, k)
                      ELSE Undefined)
              ELSE params[k]]

\* One pass of the inner loops of parseDeepLink over one segment: a key is
\* overwritten only by a non-empty value.
ScanPart(params, part) ==
  IF part = "" THEN params
  ELSE LET search == URLSearchParams(part)
       IN  [k \in DOMAIN params |->
              IF Truthy(SearchGet(search, k)) THEN SearchGet(search, k)
              ELSE params[k]]

\* Mutant: the fragment is not scanned.
parseDeepLink_noFragment(url) ==
  LET queryStart == indexOf(url, "?")
      fragmentStart == indexOf(url, "#")
      queryEnd == IF fragmentStart # -1 /\ fragmentStart > queryStart
                    THEN fragmentStart ELSE Len(url)
      queryString == IF queryStart # -1
                       THEN substring(url, queryStart + 1, queryEnd) ELSE ""
  IN  ScanPart(EmptyParams, queryString)

parseDeepLink(url) ==
  LET queryStart == indexOf(url, "?")
      fragmentStart == indexOf(url, "#")
      queryEnd == IF fragmentStart # -1 /\ fragmentStart > queryStart
                    THEN fragmentStart ELSE Len(url)
      queryString == IF queryStart # -1
                       THEN substring(url, queryStart + 1, queryEnd) ELSE ""
      fragment == IF fragmentStart # -1
                    THEN substring(url, fragmentStart + 1, Len(url)) ELSE ""
  IN  ScanPart(ScanPart(EmptyParams, queryString), fragment)

\* Mutant: the phrases are matched without lowering the message first.
isExpiredOrUsedError_caseSensitive(message) ==
  \/ includes(message, "expired")
  \/ includes(message, "already used")
  \/ includes(message, "otp_expired")
  \/ includes(message, "invalid_grant")
  \/ includes(message, "invalid token")
  \/ includes(message, "invalid otp")
  \/ includes(message, "invalid recovery")

isExpiredOrUsedError(message) ==
  LET lower == toLowerCase(message)
  IN  \/ includes(lower, "expired")
      \/ includes(lower, "already used")
      \/ includes(lower, "otp_expired")
      \/ includes(lower, "invalid_grant")
      \/ includes(lower, "invalid token")
      \/ includes(lower, "invalid otp")
      \/ includes(lower, "invalid recovery")

NoCredentialsMessage == "No valid recovery credentials found in the link."

\* The remote call exchangeCredentials issues for params, up to its await:
\* op "none" is the fall-through to the final throw, with no remote call.
exchangeCredentials(params) ==
  IF Truthy(params.code)
    THEN [op |-> "exchangeCodeForSession", args |-> <<params.code[1]>>]
  ELSE IF Truthy(params.access_token) /\ Truthy(params.refresh_token)
    THEN [op |-> "setSession",
          args |-> <<params.access_token[1], params.refresh_token[1]>>]
  ELSE LET otpToken == IF params.token_hash # Undefined
                         THEN params.token_hash ELSE params.token
       IN  IF Truthy(otpToken)
             THEN [op |-> "verifyOtp", args |-> <<otpToken[1]>>]
             ELSE [op |-> "none", args |-> << >>]

(***************************************************************************)
(* State of ResetPasswordScreen.                                           *)
(***************************************************************************)
VARIABLES
  status,          \* useState<Status>('idle')
  errorMessage,    \* useState('')
  isExpired,       \* useState(false)
  canRetry,        \* useState(false)
  password,        \* useState('')
  confirmPassword, \* useState('')
  passwordError,   \* useState('')
  confirmError,    \* useState('')
  isSubmitting,    \* useState(false)
  lastParamsRef,   \* useRef<DeepLinkParams | null>(null): << >> or <<params>>
  navTimerRef,     \* useRef(null): 0, or the index in timers of the last timer set
  timers,          \* the timers setTimeout created: "pending", "cleared" or "fired"
  routerParams,    \* useLocalSearchParams(): the raw router values
  initialURL,      \* what Linking.getInitialURL() resolves to (<< >> is null)
  initialUrlPromise, \* "none", "pending" or "resolved"
  phase,           \* "rendered" (effects not run yet), "mounted", "unmounted"
  mounted,         \* the `mounted` flag of the deep-link effect's closure
  subscription,    \* the Linking 'url' subscription: "none", "active", "removed"
  inflight,        \* the exchangeCredentials calls awaiting their remote call
  started,         \* how many exchanges processParams has started
  pendingUpdates,  \* updatePassword calls awaiting the remote updateUser
  sessionEstablished, \* the remote client holds a session (an exchange succeeded)
  failureSeen,     \* an exchange or a password update has failed
  incompleteSeen,  \* processParams has met parameters without credentials
  statusSeq,       \* the first three values status has taken, in order
  navigated,       \* the router.replace calls made: [route, phase]
  _supabase,       \* lib/supabase.ts: 0 is null, n the n-th client createClient returned
  _appStateListenerRegistered, \* lib/supabase.ts
  createClientCalls, \* how many times createClient has been called
  appStateHandlers,  \* how many 'change' handlers AppState holds
  platformOS,      \* Platform.OS
  accesses,        \* the property reads made through the supabase proxy: [prop, client]
  autoRefresh,     \* the client's token refresh: "unset", "started" or "stopped"
  session,         \* authStore: << >> is null, else <<[id, user]>>
  user,            \* authStore: << >> is null, else <<user id>>
  isLoading,       \* authStore
  isInitialized,   \* authStore
  initError,       \* authStore: << >> is null, else <<message>>
  authSubscribed,  \* the onAuthStateChange subscription of setupAuthListener is live
  calls            \* the calls of the store's async actions: [action, pc, steps, result, error]

screenVars == <<status, errorMessage, isExpired, canRetry, statusSeq>>

formVars == <<password, confirmPassword, passwordError, confirmError>>

inputVars == <<routerParams, initialURL>>

effectVars == <<initialUrlPromise, phase, mounted, subscription>>

timerVars == <<navTimerRef, timers, navigated>>

clientVars == <<_supabase, _appStateListenerRegistered, createClientCalls,
                appStateHandlers, platformOS, accesses, autoRefresh>>

\* The modules behind the screen.
storeVars == <<session, user, isLoading, isInitialized, initError, authSubscribed,
               calls>>

libVars == <<clientVars, storeVars>>

vars == <<screenVars, formVars, inputVars, effectVars, timerVars, isSubmitting,
          lastParamsRef, inflight, started, pendingUpdates,
          sessionEstablished, failureSeen, incompleteSeen, libVars>>

\* lib/supabase.ts as loaded: no client yet, nothing read through the proxy.
ClientModuleLoaded ==
  /\ _supabase = 0
  /\ _appStateListenerRegistered = FALSE
  /\ createClientCalls = 0
  /\ appStateHandlers = 0
  /\ accesses = << >>
  /\ autoRefresh = "unset"

\* The state create() gives the auth store.
StoreCreated ==
  /\ session = << >>
  /\ user = << >>
  /\ isLoading = FALSE
  /\ isInitialized = FALSE
  /\ initError = << >>
  /\ authSubscribed = FALSE
  /\ calls = << >>

\* The modules as the specifications of the screen hold them.
LibAtRest == ClientModuleLoaded /\ platformOS = "ios" /\ StoreCreated

(***************************************************************************)
(* Inputs.                                                                 *)
(***************************************************************************)
NoValue == [isArray |-> FALSE, v |-> Undefined]

One(s) == [isArray |-> FALSE, v |-> Str(s)]

Many(ss) == [isArray |-> TRUE, v |-> ss]

NoRouterParams == [k \in DOMAIN EmptyParams |-> NoValue]

\* What the router may supply: nothing, or a code (given twice, so an array).
RouterChoices ==
  {NoRouterParams, [NoRouterParams EXCEPT !.code = Many(<<"abc123", "zzz">>)]}

InitialURLs ==
  {Undefined, Str("app://reset"),
   Str("app://reset#access_token=T1&refresh_token=T2")}

EventURLs ==
  {"app://reset", "app://reset?code=abc123", "app://reset#access_token=T1"}

\* Messages of the errors the remote service answers with.
RemoteMessages ==
  {"Token has expired or is invalid", "Link ALREADY USED", "otp_expired",
   "invalid_grant", "Invalid token", "Invalid OTP", "invalid recovery link",
   "Network request failed", "Invalid login", "expire"}

\* What a failing await throws: an Error with a message, or some other value.
Thrown(messages) ==
  [isError : {TRUE}, message : messages] \cup {[isError |-> FALSE, message |-> ""]}

\* The failures the screen is run against: one of each kind.
ScreenThrown == Thrown({"Token has expired or is invalid", "Network request failed"})

TypedPasswords == {"longenough1"}

IncompleteMessage == "This reset link appears to be incomplete."

VerifyFailedMessage == "Failed to verify the reset link."

UpdateFailedMessage == "Failed to update password."

PasswordUpdateFailed == "Password update failed"

TooShortMessage == "Password must be at least 8 characters"

MismatchMessage == "Passwords do not match"

(***************************************************************************)
(* Initial state: the first render, before any effect has run.             *)
(***************************************************************************)
Init ==
  /\ status = "idle"
  /\ errorMessage = ""
  /\ isExpired = FALSE
  /\ canRetry = FALSE
  /\ password = ""
  /\ confirmPassword = ""
  /\ passwordError = ""
  /\ confirmError = ""
  /\ isSubmitting = FALSE
  /\ lastParamsRef = << >>
  /\ navTimerRef = 0
  /\ timers = << >>
  /\ routerParams \in RouterChoices
  /\ initialURL \in InitialURLs
  /\ initialUrlPromise = "none"
  /\ phase = "rendered"
  /\ mounted = FALSE
  /\ subscription = "none"
  /\ inflight = {}
  /\ started = 0
  /\ pendingUpdates = 0
  /\ sessionEstablished = FALSE
  /\ failureSeen = FALSE
  /\ incompleteSeen = FALSE
  /\ statusSeq = <<"idle">>
  /\ navigated = {}
  /\ LibAtRest

(***************************************************************************)
(* The state setters.  React drops the updates of an unmounted component,  *)
(* so after the unmount the state stays as it was.                         *)
(***************************************************************************)
Alive == phase # "unmounted"

\* statusSeq keeps the first three values status takes.
Trace(s) ==
  IF s # status /\ Len(statusSeq) < 3 THEN Append(statusSeq, s) ELSE statusSeq

\* setStatus, setErrorMessage, setIsExpired and setCanRetry of one handler.
SetScreen(s, m, e, c) ==
  IF Alive
    THEN /\ status' = s
         /\ errorMessage' = m
         /\ isExpired' = e
         /\ canRetry' = c
         /\ statusSeq' = Trace(s)
    ELSE UNCHANGED screenVars

\* A rejected exchangeCredentials whose throw came before any await settles in
\* the microtask that follows the caller: no other task runs before it.
MicrotaskPending == \E x \in inflight : x.call.op = "none"

TaskTurn == ~MicrotaskPending

(***************************************************************************)
(* processParams, up to its await.                                         *)
(***************************************************************************)
\* Mutant: the status is set to ready before the exchange is awaited.
processParams_readyBeforeAwait(params) ==
  /\ lastParamsRef' = <<params>>
  /\ IF ~hasCredentials(params)
       THEN /\ SetScreen("error", IncompleteMessage, isExpired, FALSE)
            /\ incompleteSeen' = TRUE
            /\ UNCHANGED <<inflight, started>>
       ELSE /\ started < MaxExchanges
            /\ SetScreen("ready", "", FALSE, canRetry)
            /\ started' = started + 1
            /\ inflight' = inflight \cup
                 {[seq |-> started + 1, params |-> params,
                   call |-> exchangeCredentials(params)]}
            /\ UNCHANGED incompleteSeen

\* Mutant: the status is not set to loading when the exchange starts.
processParams_noLoading(params) ==
  /\ lastParamsRef' = <<params>>
  /\ IF ~hasCredentials(params)
       THEN /\ SetScreen("error", IncompleteMessage, isExpired, FALSE)
            /\ incompleteSeen' = TRUE
            /\ UNCHANGED <<inflight, started>>
       ELSE /\ started < MaxExchanges
            /\ SetScreen(status, "", FALSE, canRetry)
            /\ started' = started + 1
            /\ inflight' = inflight \cup
                 {[seq |-> started + 1, params |-> params,
                   call |-> exchangeCredentials(params)]}
            /\ UNCHANGED incompleteSeen

processParams(params) ==
  /\ lastParamsRef' = <<params>>
  /\ IF ~hasCredentials(params)
       THEN /\ SetScreen("error", IncompleteMessage, isExpired, FALSE)
            /\ incompleteSeen' = TRUE
            /\ UNCHANGED <<inflight, started>>
       ELSE /\ started < MaxExchanges
            /\ SetScreen("loading", "", FALSE, canRetry)
            /\ started' = started + 1
            /\ inflight' = inflight \cup
                 {[seq |-> started + 1, params |-> params,
                   call |-> exchangeCredentials(params)]}
            /\ UNCHANGED incompleteSeen

\* processParams after the await: exchangeCredentials returned.
processParamsResolved(x) ==
  /\ inflight' = inflight \ {x}
  /\ sessionEstablished' = TRUE
  /\ SetScreen("ready", errorMessage, isExpired, canRetry)
  /\ UNCHANGED failureSeen

\* Mutant: Retry is offered after every failure, expired or not.
processParamsCatch_alwaysRetry(x, thrown) ==
  LET message == IF thrown.isError THEN thrown.message ELSE VerifyFailedMessage
      expired == isExpiredOrUsedError(message)
  IN  /\ inflight' = inflight \ {x}
      /\ failureSeen' = TRUE
      /\ SetScreen("error", message, expired, TRUE)
      /\ UNCHANGED sessionEstablished

\* processParams after the await: exchangeCredentials threw.
processParamsCatch(x, thrown) ==
  LET message == IF thrown.isError THEN thrown.message ELSE VerifyFailedMessage
      expired == isExpiredOrUsedError(message)
  IN  /\ inflight' = inflight \ {x}
      /\ failureSeen' = TRUE
      /\ SetScreen("error", message, expired, ~expired)
      /\ UNCHANGED sessionEstablished

(***************************************************************************)
(* The deep-link effect.                                                   *)
(***************************************************************************)
rpParams == [k \in DOMAIN EmptyParams |-> asString(routerParams[k])]

\* Mutant: the effect goes on to the initial URL and the listener after
\* processing the router's parameters.
MountEffect_noReturn ==
  /\ phase = "rendered"
  /\ phase' = "mounted"
  /\ mounted' = TRUE
  /\ initialUrlPromise' = "pending"
  /\ subscription' = "active"
  /\ IF hasCredentials(rpParams)
       THEN processParams(rpParams)
       ELSE UNCHANGED <<screenVars, lastParamsRef, inflight, started,
                        incompleteSeen>>
  /\ UNCHANGED <<formVars, inputVars, libVars, timerVars, isSubmitting, pendingUpdates, sessionEstablished, failureSeen>>

\* The effect body, run once after the first render.
MountEffect ==
  /\ phase = "rendered"
  /\ phase' = "mounted"
  /\ mounted' = TRUE
  /\ IF hasCredentials(rpParams)
       THEN /\ processParams(rpParams)
            /\ UNCHANGED <<initialUrlPromise, subscription>>
       ELSE /\ initialUrlPromise' = "pending"
            /\ subscription' = "active"
            /\ UNCHANGED <<screenVars, lastParamsRef, inflight, started,
                           incompleteSeen>>
  /\ UNCHANGED <<formVars, inputVars, libVars, timerVars, isSubmitting, pendingUpdates, sessionEstablished, failureSeen>>

\* Mutant: the initial URL is processed without the credential check.
InitialURLResolved_noCheck ==
  /\ TaskTurn
  /\ initialUrlPromise = "pending"
  /\ initialUrlPromise' = "resolved"
  /\ IF Truthy(initialURL) /\ mounted
       THEN processParams(parseDeepLink(initialURL[1]))
       ELSE UNCHANGED <<screenVars, lastParamsRef, inflight, started,
                        incompleteSeen>>
  /\ UNCHANGED <<formVars, inputVars, libVars, timerVars, phase, mounted, subscription,
                 isSubmitting, pendingUpdates, sessionEstablished, failureSeen>>

\* Mutant: the resolved URL is processed without looking at the mounted flag.
InitialURLResolved_noMountedCheck ==
  /\ TaskTurn
  /\ initialUrlPromise = "pending"
  /\ initialUrlPromise' = "resolved"
  /\ IF Truthy(initialURL) /\ hasCredentials(parseDeepLink(initialURL[1]))
       THEN processParams(parseDeepLink(initialURL[1]))
       ELSE UNCHANGED <<screenVars, lastParamsRef, inflight, started,
                        incompleteSeen>>
  /\ UNCHANGED <<formVars, inputVars, libVars, timerVars, phase, mounted, subscription,
                 isSubmitting, pendingUpdates,
                 sessionEstablished, failureSeen>>

\* Linking.getInitialURL().then(...)
InitialURLResolved ==
  /\ TaskTurn
  /\ initialUrlPromise = "pending"
  /\ initialUrlPromise' = "resolved"
  /\ IF Truthy(initialURL) /\ mounted /\ hasCredentials(parseDeepLink(initialURL[1]))
       THEN processParams(parseDeepLink(initialURL[1]))
       ELSE UNCHANGED <<screenVars, lastParamsRef, inflight, started,
                        incompleteSeen>>
  /\ UNCHANGED <<formVars, inputVars, libVars, timerVars, phase, mounted, subscription,
                 isSubmitting, pendingUpdates,
                 sessionEstablished, failureSeen>>

\* The Linking 'url' listener.
UrlEvent(url) ==
  /\ TaskTurn
  /\ subscription = "active"
  /\ IF mounted
       THEN processParams(parseDeepLink(url))
       ELSE UNCHANGED <<screenVars, lastParamsRef, inflight, started,
                        incompleteSeen>>
  /\ UNCHANGED <<formVars, inputVars, libVars, timerVars, effectVars, isSubmitting,
                 pendingUpdates, sessionEstablished, failureSeen>>

(***************************************************************************)
(* The remote exchange settles.                                            *)
(***************************************************************************)
settleFrame == <<formVars, inputVars, libVars, timerVars, effectVars, isSubmitting,
                 lastParamsRef, started, pendingUpdates,
                 incompleteSeen>>

ExchangeSucceeds(x) ==
  /\ TaskTurn
  /\ processParamsResolved(x)
  /\ UNCHANGED settleFrame

ExchangeFails(x, thrown) ==
  /\ TaskTurn
  /\ processParamsCatch(x, thrown)
  /\ UNCHANGED settleFrame

\* exchangeCredentials found no usable credential and threw its own Error.
ExchangeThrowsNoCredentials(x) ==
  /\ x.call.op = "none"
  /\ processParamsCatch(x, [isError |-> TRUE, message |-> NoCredentialsMessage])
  /\ UNCHANGED settleFrame

(***************************************************************************)
(* Retry.                                                                  *)
(***************************************************************************)
handleRetry ==
  IF lastParamsRef # << >>
    THEN processParams(lastParamsRef[1])
    ELSE UNCHANGED <<screenVars, lastParamsRef, inflight, started, incompleteSeen>>

\* The Retry button is rendered by renderError when canRetry is set.
PressRetry ==
  /\ TaskTurn
  /\ phase = "mounted"
  /\ status = "error"
  /\ canRetry
  /\ handleRetry
  /\ UNCHANGED <<formVars, inputVars, libVars, timerVars, effectVars, isSubmitting,
                 pendingUpdates, sessionEstablished,
                 failureSeen>>

(***************************************************************************)
(* renderError: the body text under the heading.                           *)
(***************************************************************************)
ExpiredCopy == "This password reset link has expired or has already been used."

\* Mutant: the message is shown whatever isExpired holds.
renderErrorText_noExpiredCopy == errorMessage

renderErrorText == IF isExpired THEN ExpiredCopy ELSE errorMessage

(***************************************************************************)
(* The new-password form.                                                  *)
(***************************************************************************)
\* onChangeText of the New Password input.
ChangePassword(value) ==
  /\ TaskTurn
  /\ phase = "mounted"
  /\ status = "ready"
  /\ value # password
  /\ password' = value
  /\ passwordError' = ""
  /\ UNCHANGED <<screenVars, confirmPassword, confirmError, inputVars, libVars, effectVars,
                 timerVars, isSubmitting, lastParamsRef, inflight, started,
                 pendingUpdates, sessionEstablished,
                 failureSeen, incompleteSeen>>

\* onChangeText of the Confirm Password input.
ChangeConfirmPassword(value) ==
  /\ TaskTurn
  /\ phase = "mounted"
  /\ status = "ready"
  /\ value # confirmPassword
  /\ confirmPassword' = value
  /\ confirmError' = ""
  /\ UNCHANGED <<screenVars, password, passwordError, inputVars, libVars, effectVars,
                 timerVars, isSubmitting, lastParamsRef, inflight, started,
                 pendingUpdates, sessionEstablished,
                 failureSeen, incompleteSeen>>

isPasswordValid ==
  Len(password) >= MIN_PASSWORD_LENGTH /\ password = confirmPassword

\* validateAndSubmit, up to its await.
\* Mutant: the confirmation is not compared with the password.
validateAndSubmit_noMatchCheck ==
  LET tooShort == Len(password) < MIN_PASSWORD_LENGTH
      hasError == tooShort
  IN  /\ passwordError' = IF tooShort THEN TooShortMessage ELSE ""
      /\ confirmError' = ""
      /\ isSubmitting' = IF hasError THEN isSubmitting ELSE TRUE
      /\ pendingUpdates' = IF hasError THEN pendingUpdates ELSE pendingUpdates + 1

validateAndSubmit ==
  LET tooShort == Len(password) < MIN_PASSWORD_LENGTH
      mismatch == password # confirmPassword
      hasError == tooShort \/ mismatch
  IN  /\ passwordError' = IF tooShort THEN TooShortMessage ELSE ""
      /\ confirmError' = IF mismatch THEN MismatchMessage ELSE ""
      /\ isSubmitting' = IF hasError THEN isSubmitting ELSE TRUE
      /\ pendingUpdates' = IF hasError THEN pendingUpdates ELSE pendingUpdates + 1

\* The Update Password button: rendered by renderForm, disabled while the
\* passwords are not valid or a submission is running.
PressUpdatePassword ==
  /\ TaskTurn
  /\ phase = "mounted"
  /\ status = "ready"
  /\ isPasswordValid
  /\ ~isSubmitting
  /\ validateAndSubmit
  /\ UNCHANGED <<screenVars, password, confirmPassword, inputVars, libVars, effectVars,
                 timerVars, lastParamsRef, inflight, started,
                 sessionEstablished, failureSeen, incompleteSeen>>

\* validateAndSubmit after the await: updatePassword returned.  The timer is
\* set and stored in the ref whether or not the screen is still mounted.
UpdateSucceeds ==
  /\ TaskTurn
  /\ pendingUpdates > 0
  /\ pendingUpdates' = pendingUpdates - 1
  /\ SetScreen("updated", errorMessage, isExpired, canRetry)
  /\ timers' = Append(timers, "pending")
  /\ navTimerRef' = Len(timers) + 1
  /\ isSubmitting' = IF Alive THEN FALSE ELSE isSubmitting
  /\ UNCHANGED <<formVars, inputVars, libVars, effectVars, navigated, lastParamsRef,
                 inflight, started, sessionEstablished,
                 failureSeen, incompleteSeen>>

\* authStore.updatePassword rethrows an Error: the one thrown, or its own.
updatePasswordError(thrown) ==
  IF thrown.isError THEN thrown
  ELSE [isError |-> TRUE, message |-> PasswordUpdateFailed]

\* validateAndSubmit after the await: updatePassword threw.
validateAndSubmitCatch(err) ==
  LET message == IF err.isError THEN err.message ELSE UpdateFailedMessage
  IN  SetScreen("error", message, isExpired, canRetry)

UpdateFails(thrown) ==
  /\ TaskTurn
  /\ pendingUpdates > 0
  /\ pendingUpdates' = pendingUpdates - 1
  /\ validateAndSubmitCatch(updatePasswordError(thrown))
  /\ failureSeen' = TRUE
  /\ isSubmitting' = IF Alive THEN FALSE ELSE isSubmitting
  /\ UNCHANGED <<formVars, inputVars, libVars, effectVars, timerVars, lastParamsRef,
                 inflight, started, sessionEstablished,
                 incompleteSeen>>

(***************************************************************************)
(* Navigation and unmount.                                                 *)
(***************************************************************************)
\* The 1500 ms timer of validateAndSubmit fires: router.replace('/(tabs)').
NavTimerFires(i) ==
  /\ TaskTurn
  /\ timers[i] = "pending"
  /\ timers' = [timers EXCEPT ![i] = "fired"]
  /\ navigated' = navigated \cup {[route |-> "/(tabs)", phase |-> phase]}
  /\ UNCHANGED <<screenVars, formVars, inputVars, libVars, effectVars, navTimerRef,
                 isSubmitting, lastParamsRef, inflight, started, pendingUpdates, sessionEstablished, failureSeen,
                 incompleteSeen>>

\* The screen unmounts: the cleanups of the two effects run.  The deep-link
\* effect registered a cleanup only when it went past the router parameters.
Unmount ==
  /\ TaskTurn
  /\ phase = "mounted"
  /\ phase' = "unmounted"
  /\ IF subscription = "active"
       THEN mounted' = FALSE /\ subscription' = "removed"
       ELSE UNCHANGED <<mounted, subscription>>
  /\ timers' = IF navTimerRef # 0 /\ timers[navTimerRef] = "pending"
                 THEN [timers EXCEPT ![navTimerRef] = "cleared"]
                 ELSE timers
  /\ UNCHANGED <<screenVars, formVars, inputVars, libVars, initialUrlPromise, navTimerRef,
                 navigated, isSubmitting, lastParamsRef, inflight, started,
                 pendingUpdates, sessionEstablished,
                 failureSeen, incompleteSeen>>

(***************************************************************************)
(* The screen.                                                             *)
(***************************************************************************)
Next ==
  \/ MountEffect
  \/ PressRetry
  \/ InitialURLResolved
  \/ \E url \in EventURLs : UrlEvent(url)
  \/ \E x \in inflight : ExchangeSucceeds(x)
  \/ \E x \in inflight : \E thrown \in ScreenThrown : ExchangeFails(x, thrown)
  \/ \E x \in inflight : ExchangeThrowsNoCredentials(x)
  \/ \E value \in TypedPasswords \cup {""} : ChangePassword(value)
  \/ \E value \in TypedPasswords \cup {""} : ChangeConfirmPassword(value)
  \/ PressUpdatePassword
  \/ UpdateSucceeds
  \/ \E thrown \in ScreenThrown : UpdateFails(thrown)
  \/ \E i \in 1..Len(timers) : NavTimerFires(i)
  \/ Unmount

Spec == Init /\ [][Next]_vars

(***************************************************************************)
(* Activation by router parameters alone: every combination of the five    *)
(* parameters, each absent, empty or non-empty, against every remote       *)
(* failure message.                                                        *)
(***************************************************************************)
RouterValues(k) == {NoValue, One(""), One("v-" \o k)}

AllRouterParams ==
  {rp \in [DOMAIN EmptyParams -> UNION {RouterValues(k) : k \in DOMAIN EmptyParams}] :
     \A k \in DOMAIN EmptyParams : rp[k] \in RouterValues(k)}

RouterThrown == Thrown(RemoteMessages)

InitRouter ==
  /\ status = "idle"
  /\ errorMessage = ""
  /\ isExpired = FALSE
  /\ canRetry = FALSE
  /\ password = ""
  /\ confirmPassword = ""
  /\ passwordError = ""
  /\ confirmError = ""
  /\ isSubmitting = FALSE
  /\ lastParamsRef = << >>
  /\ navTimerRef = 0
  /\ timers = << >>
  /\ routerParams \in AllRouterParams
  /\ initialURL = Undefined
  /\ initialUrlPromise = "none"
  /\ phase = "rendered"
  /\ mounted = FALSE
  /\ subscription = "none"
  /\ inflight = {}
  /\ started = 0
  /\ pendingUpdates = 0
  /\ sessionEstablished = FALSE
  /\ failureSeen = FALSE
  /\ incompleteSeen = FALSE
  /\ statusSeq = <<"idle">>
  /\ navigated = {}
  /\ LibAtRest

NextRouter ==
  \/ MountEffect
  \/ \E x \in inflight : ExchangeSucceeds(x)
  \/ \E x \in inflight : \E thrown \in RouterThrown : ExchangeFails(x, thrown)
  \/ \E x \in inflight : ExchangeThrowsNoCredentials(x)
  \/ PressRetry

SpecRouter == InitRouter /\ [][NextRouter]_vars

(***************************************************************************)
(* The new-password form on its own: a code from the router is exchanged,  *)
(* then the two fields are typed into and validateAndSubmit runs on        *)
(* whatever they hold (the handler repeats the checks that disable the     *)
(* button).                                                                *)
(***************************************************************************)
FormPasswords == {"", "short", "12345678", "longenough1"}

InitForm ==
  /\ status = "idle"
  /\ errorMessage = ""
  /\ isExpired = FALSE
  /\ canRetry = FALSE
  /\ password = ""
  /\ confirmPassword = ""
  /\ passwordError = ""
  /\ confirmError = ""
  /\ isSubmitting = FALSE
  /\ lastParamsRef = << >>
  /\ navTimerRef = 0
  /\ timers = << >>
  /\ routerParams = [NoRouterParams EXCEPT !.code = One("abc123")]
  /\ initialURL = Undefined
  /\ initialUrlPromise = "none"
  /\ phase = "rendered"
  /\ mounted = FALSE
  /\ subscription = "none"
  /\ inflight = {}
  /\ started = 0
  /\ pendingUpdates = 0
  /\ sessionEstablished = FALSE
  /\ failureSeen = FALSE
  /\ incompleteSeen = FALSE
  /\ statusSeq = <<"idle">>
  /\ navigated = {}
  /\ LibAtRest

\* validateAndSubmit runs on the form as it stands.
SubmitForm ==
  /\ TaskTurn
  /\ phase = "mounted"
  /\ status = "ready"
  /\ ~isSubmitting
  /\ validateAndSubmit
  /\ UNCHANGED <<screenVars, password, confirmPassword, inputVars, libVars, effectVars,
                 timerVars, lastParamsRef, inflight, started,
                 sessionEstablished, failureSeen, incompleteSeen>>

NextForm ==
  \/ MountEffect
  \/ \E x \in inflight : ExchangeSucceeds(x)
  \/ \E value \in FormPasswords : ChangePassword(value)
  \/ \E value \in FormPasswords : ChangeConfirmPassword(value)
  \/ SubmitForm
  \/ UpdateSucceeds
  \/ \E thrown \in ScreenThrown : UpdateFails(thrown)

SpecForm == InitForm /\ [][NextForm]_vars

(***************************************************************************)
(* Deep links on their own: the router supplies nothing and one link,      *)
(* built from a base, an optional query and an optional fragment, is what  *)
(* Linking.getInitialURL() resolves to and what the 'url' listener is      *)
(* handed.  A segment is a list of at most two name=value pairs with       *)
(* different names.  The exchanges it starts are left unanswered.          *)
(***************************************************************************)
LinkBases == {"app://reset", "reset", ""}

QueryPairs ==
  {<<"code", "abc">>, <<"code", "">>, <<"access_token", "Q1">>,
   <<"refresh_token", "Q2">>, <<"token", "t">>, <<"x", "1">>}

FragmentPairs ==
  {<<"access_token", "T1">>, <<"access_token", "">>, <<"refresh_token", "T2">>,
   <<"refresh_token", "T2?x=1">>, <<"code", "zzz">>, <<"token_hash", "h">>}

Segments(pairs) ==
  {<< >>} \cup {<<a>> : a \in pairs}
    \cup {ab \in pairs \X pairs : ab[1][1] # ab[2][1]}

LinkChoices ==
  [base : LinkBases,
   q : {<< >>} \cup {<<seg>> : seg \in Segments(QueryPairs)},
   f : {<< >>} \cup {<<seg>> : seg \in Segments(FragmentPairs)}]

SegText(seg) ==
  IF Len(seg) = 0 THEN ""
  ELSE IF Len(seg) = 1 THEN seg[1][1] \o "=" \o seg[1][2]
  ELSE seg[1][1] \o "=" \o seg[1][2] \o "&" \o seg[2][1] \o "=" \o seg[2][2]

UrlOf(l) ==
  l.base \o (IF l.q = << >> THEN "" ELSE "?" \o SegText(l.q[1]))
         \o (IF l.f = << >> THEN "" ELSE "#" \o SegText(l.f[1]))

LinkURLs == {UrlOf(l) : l \in LinkChoices}

InitLink ==
  /\ status = "idle"
  /\ errorMessage = ""
  /\ isExpired = FALSE
  /\ canRetry = FALSE
  /\ password = ""
  /\ confirmPassword = ""
  /\ passwordError = ""
  /\ confirmError = ""
  /\ isSubmitting = FALSE
  /\ lastParamsRef = << >>
  /\ navTimerRef = 0
  /\ timers = << >>
  /\ routerParams = NoRouterParams
  /\ initialURL \in {Str(u) : u \in LinkURLs}
  /\ initialUrlPromise = "none"
  /\ phase = "rendered"
  /\ mounted = FALSE
  /\ subscription = "none"
  /\ inflight = {}
  /\ started = 0
  /\ pendingUpdates = 0
  /\ sessionEstablished = FALSE
  /\ failureSeen = FALSE
  /\ incompleteSeen = FALSE
  /\ statusSeq = <<"idle">>
  /\ navigated = {}
  /\ LibAtRest

NextLink ==
  \/ MountEffect
  \/ InitialURLResolved
  \/ UrlEvent(initialURL[1])

SpecLink == InitLink /\ [][NextLink]_vars

(***************************************************************************)
(* lib/supabase.ts on its own: the exported proxy is read by the rest of   *)
(* the app and the operating system reports changes of the app's state.    *)
(* getSupabase is synchronous, so each read is one step.                   *)
(***************************************************************************)
MaxAccesses == 3

ProxyProps == {"auth", "from", "channel"}

Platforms == {"ios", "android", "web"}

AppStates == {"active", "background", "inactive"}

screenAll == <<screenVars, formVars, inputVars, effectVars, timerVars, isSubmitting,
               lastParamsRef, inflight, started, pendingUpdates,
               sessionEstablished, failureSeen, incompleteSeen>>

\* The reset-password screen is not on display.
ScreenNotShown ==
  /\ status = "idle"
  /\ errorMessage = ""
  /\ isExpired = FALSE
  /\ canRetry = FALSE
  /\ password = ""
  /\ confirmPassword = ""
  /\ passwordError = ""
  /\ confirmError = ""
  /\ isSubmitting = FALSE
  /\ lastParamsRef = << >>
  /\ navTimerRef = 0
  /\ timers = << >>
  /\ routerParams = NoRouterParams
  /\ initialURL = Undefined
  /\ initialUrlPromise = "none"
  /\ phase = "rendered"
  /\ mounted = FALSE
  /\ subscription = "none"
  /\ inflight = {}
  /\ started = 0
  /\ pendingUpdates = 0
  /\ sessionEstablished = FALSE
  /\ failureSeen = FALSE
  /\ incompleteSeen = FALSE
  /\ statusSeq = <<"idle">>
  /\ navigated = {}

InitClient ==
  /\ ScreenNotShown
  /\ ClientModuleLoaded
  /\ platformOS \in Platforms
  /\ StoreCreated

\* Mutant: a client is created on every call.
getSupabase_alwaysCreate ==
  /\ _supabase' = createClientCalls + 1
  /\ createClientCalls' = createClientCalls + 1
  /\ IF platformOS # "web" /\ ~_appStateListenerRegistered
       THEN /\ _appStateListenerRegistered' = TRUE
            /\ appStateHandlers' = appStateHandlers + 1
       ELSE UNCHANGED <<_appStateListenerRegistered, appStateHandlers>>

\* getSupabase(): its result is the value of _supabase afterwards.
getSupabase ==
  IF _supabase = 0
    THEN /\ _supabase' = createClientCalls + 1
         /\ createClientCalls' = createClientCalls + 1
         /\ IF platformOS # "web" /\ ~_appStateListenerRegistered
              THEN /\ _appStateListenerRegistered' = TRUE
                   /\ appStateHandlers' = appStateHandlers + 1
              ELSE UNCHANGED <<_appStateListenerRegistered, appStateHandlers>>
    ELSE UNCHANGED <<_supabase, createClientCalls, _appStateListenerRegistered,
                     appStateHandlers>>

\* The get trap of the proxy: supabase[prop].
ProxyGet(prop) ==
  /\ Len(accesses) < MaxAccesses
  /\ getSupabase
  /\ accesses' = Append(accesses, [prop |-> prop, client |-> _supabase'])
  /\ UNCHANGED <<screenAll, storeVars, platformOS, autoRefresh>>

\* The handler registered with AppState runs.
AppStateChange(state) ==
  /\ appStateHandlers > 0
  /\ autoRefresh' = IF _supabase = 0 THEN autoRefresh
                    ELSE IF state = "active" THEN "started" ELSE "stopped"
  /\ UNCHANGED <<screenAll, storeVars, _supabase, _appStateListenerRegistered,
                 createClientCalls, appStateHandlers, platformOS, accesses>>

NextClient ==
  \/ \E prop \in ProxyProps : ProxyGet(prop)
  \/ \E state \in AppStates : AppStateChange(state)

SpecClient == InitClient /\ [][NextClient]_vars

(***************************************************************************)
(* features/auth/stores/authStore.ts on its own.  A call of an async       *)
(* action is a record: the action, where it stands (the call it awaits, or *)
(* "done"), the outside calls it has made, and how it ended.  Every piece  *)
(* of an action between two awaits is one step.                            *)
(***************************************************************************)
MaxCalls == 2

SessionChoices ==
  {<< >>, <<[id |-> "s1", user |-> "u1"]>>, <<[id |-> "s2", user |-> "u2"]>>}

\* session?.user ?? null
UserOf(sess) == IF sess = << >> THEN << >> ELSE <<sess[1].user>>

StoreThrown == Thrown({"Network request failed"})

\* error instanceof Error ? error : new Error(fallback): the message thrown on.
Rethrown(thrown, fallback) == IF thrown.isError THEN thrown.message ELSE fallback

NewCall(action, pc) ==
  [action |-> action, pc |-> pc, steps |-> <<pc>>, failed |-> << >>,
   result |-> "pending", error |-> << >>]

\* An action goes on to await the next outside call.
Await(i, pc) ==
  calls' = [calls EXCEPT ![i] = [@ EXCEPT !.pc = pc, !.steps = Append(@, pc)]]

\* The action returns: its promise resolves.
ResolveCall(i) ==
  calls' = [calls EXCEPT ![i] = [@ EXCEPT !.pc = "done", !.result = "resolved"]]

\* The call awaited threw: the catch block throws an Error on to the caller.
RejectCall(i, thrown, fallback) ==
  calls' = [calls EXCEPT ![i] = [@ EXCEPT !.pc = "done", !.result = "rejected",
                                          !.failed = <<calls[i].pc>>,
                                          !.error = <<Rethrown(thrown, fallback)>>]]

At(i, action, pc) == calls[i].action = action /\ calls[i].pc = pc

storeFrame == <<screenAll, clientVars>>

InitStore ==
  /\ ScreenNotShown
  /\ ClientModuleLoaded
  /\ platformOS = "ios"
  /\ StoreCreated

\* setupAuthListener(): subscribes to onAuthStateChange.
setupAuthListener ==
  /\ ~authSubscribed
  /\ authSubscribed' = TRUE
  /\ UNCHANGED <<storeFrame, session, user, isLoading, isInitialized, initError,
                 calls>>

\* The function setupAuthListener returned is called.
AuthUnsubscribe ==
  /\ authSubscribed
  /\ authSubscribed' = FALSE
  /\ UNCHANGED <<storeFrame, session, user, isLoading, isInitialized, initError,
                 calls>>

\* Mutant: the callback stores the session and leaves user as it was.
AuthStateChange_sessionOnly(sess) ==
  /\ authSubscribed
  /\ session' = sess
  /\ UNCHANGED <<storeFrame, user, isLoading, isInitialized, initError,
                 authSubscribed, calls>>

\* The callback given to onAuthStateChange runs.
AuthStateChange(sess) ==
  /\ authSubscribed
  /\ session' = sess
  /\ user' = UserOf(sess)
  /\ UNCHANGED <<storeFrame, isLoading, isInitialized, initError, authSubscribed,
                 calls>>

(***************************************************************************)
(* initialize.                                                             *)
(***************************************************************************)
\* Mutant: getSession is called whatever the store holds.
initialize_always ==
  /\ Len(calls) < MaxCalls
  /\ isInitialized' = (isInitialized /\ initError = << >>)
  /\ initError' = << >>
  /\ calls' = Append(calls, NewCall("initialize", "getSession"))
  /\ UNCHANGED <<storeFrame, session, user, isLoading, authSubscribed>>

\* initialize(), up to its await or its early return.
initialize ==
  /\ Len(calls) < MaxCalls
  /\ IF isInitialized /\ initError = << >>
       THEN /\ calls' = Append(calls, [action |-> "initialize", pc |-> "done",
                                       steps |-> << >>, failed |-> << >>,
                                       result |-> "resolved", error |-> << >>])
            /\ UNCHANGED <<isInitialized, initError>>
       ELSE /\ calls' = Append(calls, NewCall("initialize", "getSession"))
            /\ IF initError # << >>
                 THEN isInitialized' = FALSE /\ initError' = << >>
                 ELSE UNCHANGED <<isInitialized, initError>>
  /\ UNCHANGED <<storeFrame, session, user, isLoading, authSubscribed>>

\* getSession() answered with a session (or null) and no error.
getSessionResolves(i, sess) ==
  /\ At(i, "initialize", "getSession")
  /\ session' = sess
  /\ user' = UserOf(sess)
  /\ isInitialized' = TRUE
  /\ initError' = << >>
  /\ ResolveCall(i)
  /\ UNCHANGED <<storeFrame, isLoading, authSubscribed>>

\* getSession() answered with an error or threw: the catch block stores it.
getSessionRejects(i, thrown) ==
  /\ At(i, "initialize", "getSession")
  /\ isInitialized' = TRUE
  /\ initError' = <<Rethrown(thrown, "Auth initialization failed")>>
  /\ calls' = [calls EXCEPT ![i] = [@ EXCEPT !.pc = "done", !.result = "resolved",
                                             !.failed = <<"getSession">>]]
  /\ UNCHANGED <<storeFrame, session, user, isLoading, authSubscribed>>

(***************************************************************************)
(* signOut.                                                                *)
(***************************************************************************)
\* Mutant: the remote signOut is attempted although removeToken failed.
removeTokenRejects_goesOn(i, thrown) ==
  /\ At(i, "signOut", "removeToken")
  /\ calls' = [calls EXCEPT ![i] = [@ EXCEPT !.pc = "signOut",
                                             !.steps = Append(@, "signOut"),
                                             !.failed = <<"removeToken">>]]
  /\ UNCHANGED <<storeFrame, session, user, isLoading, isInitialized, initError,
                 authSubscribed>>

signOut ==
  /\ Len(calls) < MaxCalls
  /\ isLoading' = TRUE
  /\ calls' = Append(calls, NewCall("signOut",
                                    IF user # << >> THEN "removeToken" ELSE "signOut"))
  /\ UNCHANGED <<storeFrame, session, user, isInitialized, initError, authSubscribed>>

removeTokenResolves(i) ==
  /\ At(i, "signOut", "removeToken")
  /\ Await(i, "signOut")
  /\ UNCHANGED <<storeFrame, session, user, isLoading, isInitialized, initError,
                 authSubscribed>>

removeTokenRejects(i, thrown) ==
  /\ At(i, "signOut", "removeToken")
  /\ RejectCall(i, thrown, "Sign out failed")
  /\ isLoading' = FALSE
  /\ UNCHANGED <<storeFrame, session, user, isInitialized, initError, authSubscribed>>

\* supabase.auth.signOut() answered without an error: clearToken() and
\* queryClient.clear() follow at once.
remoteSignOutResolves(i) ==
  /\ At(i, "signOut", "signOut")
  /\ calls' = [calls EXCEPT ![i] =
                 [@ EXCEPT !.pc = "done", !.result = "resolved",
                           !.steps = @ \o <<"clearToken", "queryClient.clear">>]]
  /\ isLoading' = FALSE
  /\ UNCHANGED <<storeFrame, session, user, isInitialized, initError, authSubscribed>>

remoteSignOutRejects(i, thrown) ==
  /\ At(i, "signOut", "signOut")
  /\ RejectCall(i, thrown, "Sign out failed")
  /\ isLoading' = FALSE
  /\ UNCHANGED <<storeFrame, session, user, isInitialized, initError, authSubscribed>>

(***************************************************************************)
(* signIn and signUp: the remote call, then the push token.                *)
(***************************************************************************)
DataUsers == {<< >>, <<"u1">>}

RemoteOf(action) ==
  CASE action = "signIn" -> "signInWithPassword"
    [] action = "signUp" -> "signUp"
    [] action = "resetPassword" -> "resetPasswordForEmail"
    [] action = "updatePassword" -> "updateUser"

FallbackOf(action) ==
  CASE action = "signIn" -> "Sign in failed"
    [] action = "signUp" -> "Sign up failed"
    [] action = "resetPassword" -> "Password reset failed"
    [] action = "updatePassword" -> PasswordUpdateFailed

\* set({ isLoading: true }) and the remote call of the action.
StartRemote(action) ==
  /\ Len(calls) < MaxCalls
  /\ isLoading' = TRUE
  /\ calls' = Append(calls, NewCall(action, RemoteOf(action)))
  /\ UNCHANGED <<storeFrame, session, user, isInitialized, initError, authSubscribed>>

signIn == StartRemote("signIn")

signUp == StartRemote("signUp")

resetPassword == StartRemote("resetPassword")

updatePassword == StartRemote("updatePassword")

\* signInWithPassword or signUp answered without an error; dataUser is
\* data.user?.id ?? data.session?.user.id.
credentialsAccepted(i, dataUser) ==
  LET userId == IF dataUser # << >> THEN dataUser ELSE user
  IN  /\ calls[i].action \in {"signIn", "signUp"}
      /\ calls[i].pc = RemoteOf(calls[i].action)
      /\ IF userId # << >>
           THEN Await(i, "registerAndSaveToken") /\ UNCHANGED isLoading
           ELSE ResolveCall(i) /\ isLoading' = FALSE
      /\ UNCHANGED <<storeFrame, session, user, isInitialized, initError,
                     authSubscribed>>

registerAndSaveTokenResolves(i) ==
  /\ calls[i].action \in {"signIn", "signUp"}
  /\ calls[i].pc = "registerAndSaveToken"
  /\ ResolveCall(i)
  /\ isLoading' = FALSE
  /\ UNCHANGED <<storeFrame, session, user, isInitialized, initError, authSubscribed>>

\* resetPasswordForEmail or updateUser answered without an error.
remoteResolves(i) ==
  /\ calls[i].action \in {"resetPassword", "updatePassword"}
  /\ calls[i].pc = RemoteOf(calls[i].action)
  /\ ResolveCall(i)
  /\ isLoading' = FALSE
  /\ UNCHANGED <<storeFrame, session, user, isInitialized, initError, authSubscribed>>

\* Mutant: a failure is thrown on with isLoading left as it is.
awaitedCallRejects_noFinally(i, thrown) ==
  /\ calls[i].action \in {"signIn", "signUp", "resetPassword", "updatePassword"}
  /\ calls[i].pc # "done"
  /\ RejectCall(i, thrown, FallbackOf(calls[i].action))
  /\ UNCHANGED <<storeFrame, session, user, isLoading, isInitialized, initError,
                 authSubscribed>>

\* The call awaited by signIn, signUp, resetPassword or updatePassword
\* answered with an error or threw.
awaitedCallRejects(i, thrown) ==
  /\ calls[i].action \in {"signIn", "signUp", "resetPassword", "updatePassword"}
  /\ calls[i].pc # "done"
  /\ RejectCall(i, thrown, FallbackOf(calls[i].action))
  /\ isLoading' = FALSE
  /\ UNCHANGED <<storeFrame, session, user, isInitialized, initError, authSubscribed>>

NextStore ==
  \/ setupAuthListener
  \/ AuthUnsubscribe
  \/ \E sess \in SessionChoices : AuthStateChange(sess)
  \/ initialize
  \/ \E i \in DOMAIN calls : \E sess \in SessionChoices : getSessionResolves(i, sess)
  \/ \E i \in DOMAIN calls : \E thrown \in StoreThrown : getSessionRejects(i, thrown)
  \/ signIn
  \/ signUp
  \/ resetPassword
  \/ updatePassword
  \/ \E i \in DOMAIN calls : \E dataUser \in DataUsers : credentialsAccepted(i, dataUser)
  \/ \E i \in DOMAIN calls : registerAndSaveTokenResolves(i)
  \/ \E i \in DOMAIN calls : remoteResolves(i)
  \/ \E i \in DOMAIN calls : \E thrown \in StoreThrown : awaitedCallRejects(i, thrown)
  \/ signOut
  \/ \E i \in DOMAIN calls : removeTokenResolves(i)
  \/ \E i \in DOMAIN calls : \E thrown \in StoreThrown : removeTokenRejects(i, thrown)
  \/ \E i \in DOMAIN calls : remoteSignOutResolves(i)
  \/ \E i \in DOMAIN calls : \E thrown \in StoreThrown : remoteSignOutRejects(i, thrown)

SpecStore == InitStore /\ [][NextStore]_vars

(***************************************************************************)
(* Properties.                                                             *)
(***************************************************************************)

\* C1: at most one credential exchange is in flight at any time.
C1_OneExchangeInFlight == Cardinality(inflight) <= 1

ClaimedCall(params) ==
  IF Truthy(params.code)
    THEN [op |-> "exchangeCodeForSession", args |-> <<params.code[1]>>]
  ELSE IF Truthy(params.access_token) /\ Truthy(params.refresh_token)
    THEN [op |-> "setSession",
          args |-> <<params.access_token[1], params.refresh_token[1]>>]
  ELSE IF Truthy(params.token_hash)
    THEN [op |-> "verifyOtp", args |-> <<params.token_hash[1]>>]
  ELSE IF Truthy(params.token)
    THEN [op |-> "verifyOtp", args |-> <<params.token[1]>>]
  ELSE [op |-> "none", args |-> << >>]

\* C4: for parameters that have credentials, exchangeCredentials issues
\* exactly one remote operation, the one the priority order names.
C4_OneCallByPriority ==
  \A x \in inflight :
    hasCredentials(x.params) => (x.call.op # "none" /\ x.call = ClaimedCall(x.params))

\* C5: for parameters that have credentials, the exchange never ends in the
\* fixed "No valid recovery credentials" failure.
C5_FallbackUnreachable ==
  ~(status = "error" /\ errorMessage = NoCredentialsMessage)

\* C6: for an activation with one exchange and no other link processed, on a
\* mounted screen, status is loading while the exchange is in flight, having
\* gone idle, loading; once the exchange has succeeded the status sequence
\* begins idle, loading, ready.
C6_IdleLoadingReady ==
  (started = 1 /\ ~incompleteSeen /\ phase = "mounted") =>
    /\ inflight # {} => (status = "loading" /\ statusSeq = <<"idle", "loading">>)
    /\ sessionEstablished =>
         (Len(statusSeq) >= 3 /\ SubSeq(statusSeq, 1, 3) = <<"idle", "loading", "ready">>)

\* C6 witness: the fragment link's token pair was exchanged by setSession and
\* the screen is ready.
C6_Witness ==
  /\ started = 1
  /\ ~incompleteSeen
  /\ phase = "mounted"
  /\ sessionEstablished
  /\ status = "ready"
  /\ statusSeq = <<"idle", "loading", "ready">>
  /\ lastParamsRef = <<parseDeepLink("app://reset#access_token=T1&refresh_token=T2")>>

\* The phrases C7 lists.
ExpiredPhrases ==
  {"expired", "already used", "otp_expired", "invalid_grant",
   "invalid token", "invalid otp", "invalid recovery"}

ContainsExpiredPhrase(message) ==
  \E phrase \in ExpiredPhrases : includes(toLowerCase(message), phrase)

\* C7: after a failed exchange the screen is in error with canRetry false when
\* the message contains one of the phrases, whatever its case, and true when
\* it contains none.
C7_RetryByClassification ==
  status = "error" => (canRetry = ~ContainsExpiredPhrase(errorMessage))

\* C7 witness: a failure whose message has a phrase in another case.
C7_Witness == status = "error" /\ errorMessage = "Invalid OTP" /\ ~canRetry

\* C8: pressing Retry moves status to loading and starts an exchange with the
\* stored parameters, which it leaves as they are.
C8_RetryReruns ==
  [][PressRetry =>
       /\ status' = "loading"
       /\ lastParamsRef' = lastParamsRef
       /\ \E x \in inflight' \ inflight : x.params = lastParamsRef[1]]_vars

\* C9: canRetry and isExpired are never both true.
C9_NoRetryWhenExpired == ~(canRetry /\ isExpired)

\* C9 witness: a failure classified expired/used, with no Retry offered.
C9_Witness == status = "error" /\ isExpired /\ ~canRetry /\ failureSeen

C11_ValidatedSubmit ==
  [][/\ SubmitForm =>
          IF Len(password) >= 8 /\ password = confirmPassword
            THEN /\ pendingUpdates' = pendingUpdates + 1
                 /\ passwordError' = "" /\ confirmError' = ""
            ELSE /\ pendingUpdates' = pendingUpdates
                 /\ (passwordError' # "" \/ confirmError' # "")
                 /\ status' = "ready"
                 /\ ~isSubmitting'
     /\ (UpdateSucceeds /\ status = "ready") => status' = "updated"]_vars

\* C11 witness: a long enough password with another confirmation was
\* submitted: the mismatch is shown and nothing was sent.
C11_Witness ==
  /\ status = "ready"
  /\ password = "longenough1"
  /\ confirmPassword = "12345678"
  /\ confirmError = MismatchMessage
  /\ passwordError = ""
  /\ pendingUpdates = 0
  /\ ~isSubmitting

\* C12: 'updated' is terminal: once status is 'updated' no later step
\* changes it.
C12_UpdatedTerminal ==
  [][status = "updated" => status' = "updated"]_vars

\* C13: hasCredentials is true exactly when one of code, access_token, token,
\* token_hash is a non-empty string, whatever refresh_token holds: the mount
\* effect has processed the router parameters exactly in that case.
C13_HasCredentials ==
  phase # "rendered" =>
    ((lastParamsRef # << >>) <=>
       \E k \in {"code", "access_token", "token", "token_hash"} :
          rpParams[k] # Undefined /\ rpParams[k][1] # "")

\* C13 witness: a non-empty refresh_token next to an empty code was found to
\* carry no credentials.
C13_Witness ==
  /\ phase = "mounted"
  /\ rpParams.refresh_token = Str("v-refresh_token")
  /\ rpParams.code = Str("")
  /\ lastParamsRef = << >>
  /\ initialUrlPromise = "pending"

\* What a link holds, read off the way it was built: the value a segment
\* gives a name, and the link a delivered URL was built from.
SegValue(optSeg, k) ==
  IF optSeg = << >> THEN Undefined
  ELSE LET seg == optSeg[1]
           hits == {i \in 1..Len(seg) : seg[i][1] = k}
       IN  IF hits = {} THEN Undefined ELSE Str(seg[CHOOSE i \in hits : TRUE][2])

NonEmpty(v) == v # Undefined /\ v[1] # ""

\* The link a URL was built from, found by its text before the fragment.
LinkHeads ==
  {[base |-> l.base, q |-> l.q, text |-> UrlOf(l)] :
     l \in {c \in LinkChoices : c.f = << >>}}

LinkTails ==
  {[f |-> l.f, text |-> UrlOf(l)] :
     l \in {c \in LinkChoices : c.base = "" /\ c.q = << >>}}

LinkOf ==
  [u \in LinkURLs |->
     LET heads == {h \in LinkHeads : /\ Len(h.text) <= Len(u)
                                     /\ SubSeq(u, 1, Len(h.text)) = h.text}
         Built(h) == {[base |-> h.base, q |-> h.q, f |-> t.f] :
                        t \in {c \in LinkTails : h.text \o c.text = u}}
     IN  CHOOSE l \in UNION {Built(h) : h \in heads} : TRUE]

Delivered == LinkOf[initialURL[1]]

Parsed == lastParamsRef[1]

OtherKeys(k) == DOMAIN EmptyParams \ {k}

\* C14 as stated: a link with a (non-empty) code in its query and no fragment
\* parses to that code and nothing else.
C14_CodeOnly ==
  (lastParamsRef # << >> /\ Delivered.base = "app://reset"
     /\ Delivered.f = << >> /\ NonEmpty(SegValue(Delivered.q, "code")))
  => /\ Parsed.code = SegValue(Delivered.q, "code")
     /\ \A k \in OtherKeys("code") : Parsed[k] = Undefined

\* C14, amended: a link with a non-empty code in its query, no other
\* recognised name with a non-empty value there and no fragment parses to that
\* code and nothing else.
C14_CodeAlone ==
  (lastParamsRef # << >> /\ Delivered.f = << >>
     /\ NonEmpty(SegValue(Delivered.q, "code"))
     /\ \A k \in OtherKeys("code") : ~NonEmpty(SegValue(Delivered.q, k)))
  => /\ Parsed.code = SegValue(Delivered.q, "code")
     /\ \A k \in OtherKeys("code") : Parsed[k] = Undefined

\* C14 witness: the code of app://reset?code=abc&x=1 was extracted alone and
\* its exchange started.
C14_Witness ==
  /\ initialURL = Str("app://reset?code=abc&x=1")
  /\ lastParamsRef = <<[EmptyParams EXCEPT !.code = Str("abc")]>>
  /\ status = "loading"

\* C15: a link whose fragment holds a non-empty access_token and a non-empty
\* refresh_token parses to both, with the fragment's values, whatever its
\* query holds.
C15_FragmentTokens ==
  (lastParamsRef # << >>
     /\ NonEmpty(SegValue(Delivered.f, "access_token"))
     /\ NonEmpty(SegValue(Delivered.f, "refresh_token")))
  => /\ Parsed.access_token = SegValue(Delivered.f, "access_token")
     /\ Parsed.refresh_token = SegValue(Delivered.f, "refresh_token")

\* C15 witness: the fragment's tokens were extracted from a link whose query
\* holds an access_token of its own.
C15_Witness ==
  /\ initialURL = Str("app://reset?access_token=Q1#access_token=T1&refresh_token=T2")
  /\ lastParamsRef # << >>
  /\ Parsed.access_token = Str("T1")
  /\ Parsed.refresh_token = Str("T2")

\* C16: for every recognised name the parse holds the fragment's value when
\* that is non-empty, else the query's value when that is non-empty, else
\* nothing: the later segment wins and an empty value never erases.
C16_LastSeenWins ==
  lastParamsRef # << >> =>
    \A k \in DOMAIN EmptyParams :
       Parsed[k] = IF NonEmpty(SegValue(Delivered.f, k)) THEN SegValue(Delivered.f, k)
                   ELSE IF NonEmpty(SegValue(Delivered.q, k)) THEN SegValue(Delivered.q, k)
                   ELSE Undefined

\* C16 witness: code from the fragment replaced the query's code, and the
\* query's access_token survived an empty one in the fragment.
C16_Witness ==
  /\ initialURL = Str("app://reset?code=abc&access_token=Q1#code=zzz&access_token=")
  /\ lastParamsRef # << >>
  /\ Parsed.code = Str("zzz")
  /\ Parsed.access_token = Str("Q1")

\* A link with no scheme is not a URL: new URL() rejects it.
Unparsable(l) == ~includes(l.base, "://")

\* C17: every delivered string parses to a DeepLinkParams value, and one that
\* is not a URL parses to the value with all five fields unset, which carries
\* no credentials.
C17_UnparsableIsEmpty ==
  lastParamsRef # << >> =>
    /\ DOMAIN Parsed = DOMAIN EmptyParams
    /\ Unparsable(Delivered) => (Parsed = EmptyParams /\ ~hasCredentials(Parsed))

\* C18: when the router's parameters carry credentials, activation starts one
\* exchange from them and never asks for, parses or processes the initial
\* URL: the parameters processed are the router's, every exchange carries
\* them, and a second exchange exists only after a failure was retried.
C18_RouterFirst ==
  (phase # "rendered" /\ hasCredentials(rpParams)) =>
    /\ initialUrlPromise = "none"
    /\ lastParamsRef = <<rpParams>>
    /\ started >= 1
    /\ started = 1 \/ failureSeen
    /\ \A x \in inflight : x.params = rpParams

\* C18 witness: the router's code is being exchanged while the initial URL
\* holds tokens of its own.
C18_Witness ==
  /\ phase = "mounted"
  /\ hasCredentials(rpParams)
  /\ initialURL = Str("app://reset#access_token=T1&refresh_token=T2")
  /\ started = 1
  /\ Cardinality(inflight) = 1
  /\ status = "loading"

\* C19: while the screen is mounted the 'url' listener is registered,
\* whichever source supplied the first credentials, and a URL event is
\* processed exactly when the URL it carries has credentials.
C19_ListenerAlways ==
  /\ [](phase = "mounted" => subscription = "active")
  /\ [][\A url \in EventURLs :
          (UrlEvent(url) /\ ~hasCredentials(parseDeepLink(url)))
             => UNCHANGED <<status, lastParamsRef>>]_vars

\* C20: the navigation to the tabs set up after a successful update never
\* runs on an unmounted screen.
C20_NoNavigationAfterUnmount ==
  \A n \in navigated : n.route = "/(tabs)" => n.phase # "unmounted"

\* C21: a failed exchange is shown verbatim: after an exchange failed with an
\* Error the screen is in error and the text shown is the Error's message,
\* unless the message holds an expired/used phrase, and then the fixed copy.
C21_FailureVerbatim ==
  [][\A x \in inflight : \A thrown \in RouterThrown :
       (ExchangeFails(x, thrown) /\ thrown.isError) =>
          /\ status' = "error"
          /\ renderErrorText' = IF ContainsExpiredPhrase(thrown.message)
                                  THEN ExpiredCopy ELSE thrown.message]_vars

\* C21 witness: the failure 'Invalid login' is on the screen as it came.
C21_Witness ==
  /\ status = "error"
  /\ failureSeen
  /\ ~isExpired
  /\ renderErrorText = "Invalid login"

\* C22: the client is a lazily created singleton: there is none before the
\* first read through the proxy, createClient is called at most once, every
\* read is served by that one client, and AppState holds at most one handler.
C22_LazySingleton ==
  /\ accesses = << >> => (_supabase = 0 /\ createClientCalls = 0)
  /\ createClientCalls <= 1
  /\ \A i \in DOMAIN accesses : accesses[i].client = 1 /\ _supabase = 1
  /\ appStateHandlers <= 1

\* C22 witness: three reads were served after one createClient and one
\* registration.
C22_Witness ==
  /\ Len(accesses) = 3
  /\ createClientCalls = 1
  /\ appStateHandlers = 1
  /\ autoRefresh = "stopped"

\* C23: when exchanges overlap the last one started decides the screen: an
\* exchange that was started earlier and settles last changes nothing.
C23_LastStartedWins ==
  [][\A x \in inflight :
       (/\ x.seq < started
        /\ inflight = {x}
        /\ \/ ExchangeSucceeds(x)
           \/ \E thrown \in ScreenThrown : ExchangeFails(x, thrown))
       => UNCHANGED <<status, errorMessage, isExpired, canRetry>>]_vars

\* C24: an error shown with the 'Link Expired' copy is an exchange failure
\* whose message holds an expired/used phrase.
C24_ExpiredCopyOnlyForExpired ==
  (status = "error" /\ isExpired) => ContainsExpiredPhrase(errorMessage)

\* C25: once the screen is unmounted no exchange is started and the URL
\* subscription is not active.
C25_NothingStartsAfterUnmount ==
  [][phase' = "unmounted" =>
       /\ started' = started
       /\ inflight' \subseteq inflight
       /\ subscription' # "active"]_vars

\* C25 witness: the initial URL, which holds tokens, resolved after the
\* unmount and nothing was started.
C25_Witness ==
  /\ phase = "unmounted"
  /\ initialURL = Str("app://reset#access_token=T1&refresh_token=T2")
  /\ initialUrlPromise = "resolved"
  /\ subscription = "removed"
  /\ started = 0

\* The outside calls signOut may have made, in the order the claim gives.
SignOutRuns ==
  {<<"removeToken">>, <<"removeToken", "signOut">>,
   <<"removeToken", "signOut", "clearToken", "queryClient.clear">>,
   <<"signOut">>, <<"signOut", "clearToken", "queryClient.clear">>}

\* C26: signOut makes its calls in order (removeToken when a user id is known,
\* remote signOut, clearToken, queryClient.clear) and stops at the first
\* failure: a call that was rejected made neither clearToken nor
\* queryClient.clear, a call that resolved made both after the remote signOut,
\* and a failed removeToken is followed by nothing.
C26_SignOutInOrder ==
  /\ [](\A i \in DOMAIN calls :
          calls[i].action = "signOut" =>
            /\ calls[i].steps \in SignOutRuns
            /\ calls[i].failed # << >> =>
                 /\ calls[i].result = "rejected"
                 /\ calls[i].steps[Len(calls[i].steps)] = calls[i].failed[1]
            /\ calls[i].result = "resolved" <=> Len(calls[i].steps) >= 3)
  /\ [][signOut =>
          calls'[Len(calls')].steps =
             IF user # << >> THEN <<"removeToken">> ELSE <<"signOut">>]_vars

\* C26 witness: removing the push token failed and the call was rejected
\* without a remote signOut.
C26_Witness ==
  \E i \in DOMAIN calls :
     /\ calls[i].action = "signOut"
     /\ calls[i].steps = <<"removeToken">>
     /\ calls[i].failed = <<"removeToken">>
     /\ calls[i].result = "rejected"

\* C27: initialize is idempotent once it has succeeded: called with
\* isInitialized true and no initError it returns without getSession and
\* changes nothing; called after a failure it clears initError and asks again;
\* when a call completes isInitialized is true and initError is null exactly
\* when getSession succeeded; and no call is ever rejected.
C27_InitializeIdempotent ==
  /\ [](\A i \in DOMAIN calls :
          calls[i].action = "initialize" => calls[i].result # "rejected")
  /\ [][/\ (initialize /\ isInitialized /\ initError = << >>) =>
             /\ UNCHANGED <<session, user, isLoading, isInitialized, initError>>
             /\ calls'[Len(calls')].steps = << >>
             /\ calls'[Len(calls')].result = "resolved"
        /\ (initialize /\ initError # << >>) =>
             /\ initError' = << >>
             /\ calls'[Len(calls')].steps = <<"getSession">>
        /\ \A i \in DOMAIN calls :
             (calls[i].action = "initialize" /\ calls[i].pc # "done"
                /\ calls'[i].pc = "done") =>
               /\ isInitialized'
               /\ calls'[i].result = "resolved"
               /\ (initError' = << >>) <=> (calls'[i].failed = << >>)]_vars

\* C27 witness: after a success a second call returned without asking.
C27_Witness ==
  /\ Len(calls) = 2
  /\ calls[1].action = "initialize" /\ calls[1].steps = <<"getSession">>
  /\ calls[1].failed = << >>
  /\ calls[2].action = "initialize" /\ calls[2].steps = << >>
  /\ calls[2].result = "resolved"
  /\ isInitialized /\ initError = << >>

\* C28: user is session.user when there is a session and null when there is
\* none.
C28_UserFollowsSession == user = UserOf(session)

\* C28 witness: initialize completed and an auth event then put another
\* session in the store.
C28_Witness ==
  /\ \E i \in DOMAIN calls : calls[i].action = "initialize" /\ calls[i].pc = "done"
  /\ authSubscribed
  /\ session # << >> /\ session[1].id = "s2"
  /\ user = <<"u2">>

AuthActions == {"signIn", "signUp", "signOut", "resetPassword", "updatePassword"}

\* C29: each of signIn, signUp, signOut, resetPassword and updatePassword
\* sets isLoading when it starts and clears it when it completes, is rejected
\* with an Error exactly when a call it awaited failed (the Error thrown, or
\* one with the action's own message), and never changes session or user.
C29_LoadingAndRethrow ==
  [][/\ (Len(calls') = Len(calls) + 1 /\ calls'[Len(calls')].action \in AuthActions) =>
          /\ isLoading'
          /\ UNCHANGED <<session, user>>
     /\ \A i \in DOMAIN calls :
          (calls[i].action \in AuthActions /\ calls'[i] # calls[i]) =>
             /\ UNCHANGED <<session, user>>
             /\ calls'[i].pc = "done" =>
                  /\ ~isLoading'
                  /\ (calls'[i].result = "rejected") <=> (calls'[i].failed # << >>)
                  /\ calls'[i].result = "rejected" => calls'[i].error # << >>
     /\ \A i \in DOMAIN calls : \A thrown \in StoreThrown :
          (thrown.isError /\ (\/ awaitedCallRejects(i, thrown)
                              \/ removeTokenRejects(i, thrown)
                              \/ remoteSignOutRejects(i, thrown))) =>
             calls'[i].error = <<thrown.message>>]_vars

\* C29 witness: an updatePassword that failed is over, rejected with the
\* remote message, and isLoading is false again.
C29_Witness ==
  /\ ~isLoading
  /\ \E i \in DOMAIN calls :
       /\ calls[i].action = "updatePassword"
       /\ calls[i].result = "rejected"
       /\ calls[i].error = <<"Network request failed">>

\* C30: isLoading is true whenever one of the five actions is still in
\* flight.
C30_LoadingWhileInFlight ==
  (\E i \in DOMAIN calls : calls[i].action \in AuthActions /\ calls[i].pc # "done")
    => isLoading

====
